---- MODULE Spec2Model ----
(***************************************************************************)
(* Model of the rag-pipeline scripts:                                      *)
(*   scripts/02_chunk_markdown.ts  (paragraph window builder and chunker)  *)
(*   scripts/04_ingest_pg.ts       (ingest of chunk files into Postgres)   *)
(*   scripts/03_embed_chunks.ts    (embedding of the stored chunks)        *)
(*   scripts/00_pipeline.ts        (extract, chunk, ingest per EPUB)       *)
(*                                                                         *)
(* A paragraph is modelled by what the code looks at: whether it is the    *)
(* literal chapter header "# <title>" (hdr) and its word count (tok).  A   *)
(* text is the sequence of the paragraphs joined by blank lines, so that   *)
(* approxTokenCount of a text is the sum of the word counts of its parts.  *)
(***************************************************************************)
EXTENDS Integers, Sequences, FiniteSets, TLC

\* ---------------------------------------------------------------- bounds
MaxParas == 4        \* longest paragraph sequence given to the window builder
MaxCost == 3         \* largest word count of one paragraph
MaxTok == 4          \* largest --maxTokens / --overlapTokens tried
MaxChapters == 2     \* most chapters in metadata.json
MaxChapParas == 1    \* most paragraphs in one chapter file
MaxChapCost == 1     \* largest word count of a paragraph of a chapter file
MaxOptTok == 2       \* largest --maxTokens / --overlapTokens given to main
TitleWords == 1      \* words in a chapter title
MaxFiles == 2        \* most chunk files under --chunksRoot
MaxLines == 2        \* most lines over all chunk files
MaxBatch == 2        \* largest --batchSize
MaxEmbedRows == 2    \* most rows of rag.chunks at the start of an embed run
MaxLimit == 2        \* largest --limit of an embed run
MaxFetch == 2        \* largest --batchSize of an embed run
MaxAttempts == 3     \* rows an embed run is followed through
MaxEpubs == 2        \* most .epub files in the input directory
MaxNameLen == 2      \* longest file name (without .epub) of an EPUB

\* ------------------------------------------------------ program constants
PadWidth == 6        \* String(chunkIndex).padStart(6, '0')
SliceLen == 80       \* .slice(0, 80) of the work directory name

VARIABLES
    \* buildOverlappedWindows, run one outer-loop iteration at a time
    wbPc, wbParas, wbMax, wbOv, start, out, iters,
    \* 02_chunk_markdown main: inputs
    hasMetadata, chapters, optMax, optOv, includeChapterHeader,
    \* 02_chunk_markdown main: state
    mPc, chPos, lines, chunkIndex, outDirMade, fileWritten, fileLines,
    \* 04_ingest_pg main: inputs (the chunk files found, --batchSize)
    files, batchSize,
    \* the rag.books and rag.chunks tables
    books, chunks,
    \* 04_ingest_pg main: state of the current run
    iPc, fileIdx, lineIdx, batch, seenBooks, stats, logWritten,
    \* history: number of the run, tables at the end of the first run,
    \* whether a query of some run failed
    run, snapshot, storageFailed,
    \* 03_embed_chunks main: options and environment
    eLimit, eBatchSize, eDryRun, eApiKey,
    \* 03_embed_chunks main: state; eOutcome records how the last row ended
    ePc, remaining, eRows, log, eLogWritten, eOutcome,
    \* 00_pipeline main: the EPUBs found, --keepWorkdir
    epubs, keepWorkdir,
    \* 00_pipeline main: position, current EPUB, its book directory, the
    \* files under the run's work directory; history: the stages spawned
    pPc, pIdx, pSlug, tree, stageLog

wbVars == <<wbPc, wbParas, wbMax, wbOv, start, out, iters>>
chInputs == <<hasMetadata, chapters, optMax, optOv, includeChapterHeader>>
chState == <<mPc, chPos, lines, chunkIndex, outDirMade, fileWritten, fileLines>>
chVars == <<chInputs, chState>>
inInputs == <<files, batchSize>>
dbVars == <<books, chunks>>
inState == <<iPc, fileIdx, lineIdx, batch, seenBooks, stats, logWritten>>
inHist == <<run, snapshot, storageFailed>>
inVars == <<inInputs, dbVars, inState, inHist>>
embInputs == <<eLimit, eBatchSize, eDryRun, eApiKey>>
embState == <<ePc, remaining, eRows, log, eLogWritten, eOutcome>>
embVars == <<embInputs, embState>>
pipeInputs == <<epubs, keepWorkdir>>
pipeState == <<pPc, pIdx, pSlug, tree, stageLog>>
pipeVars == <<pipeInputs, pipeState>>
vars == <<wbVars, chVars, inVars, embVars, pipeVars>>

\* ------------------------------------------------------------- helpers
Max(a, b) == IF a >= b THEN a ELSE b

RECURSIVE SeqsUpTo(_, _)
SeqsUpTo(S, n) ==
    IF n = 0 THEN {<<>>}
    ELSE LET shorter == SeqsUpTo(S, n - 1)
         IN shorter \cup {Append(s, x) : s \in {t \in shorter : Len(t) = n - 1}, x \in S}

Para(c) == [hdr |-> FALSE, tok |-> c]
PlainParas == {Para(c) : c \in 1..MaxCost}

\* approxTokenCount: words of the trimmed text; 0 for an empty text.
RECURSIVE approxTokenCount(_)
approxTokenCount(text) ==
    IF text = <<>> THEN 0
    ELSE Head(text).tok + approxTokenCount(Tail(text))

\* The three checks at the head of buildOverlappedWindows.
ConfigError(maxTokens, overlapTokens) ==
    \/ maxTokens <= 0
    \/ overlapTokens < 0
    \/ overlapTokens >= maxTokens

\* Inner accumulation loop: returns the window's endExclusive and text.
\* Indices are the code's zero-based ones; paragraphs[i] is paras[i + 1].
FillBreakBefore_NoFirst(t, maxTokens, endExclusive, s) == t > maxTokens
FillBreakBefore_Late(t, maxTokens, endExclusive, s) == t > maxTokens + 1 /\ endExclusive > s
FillBreakBefore(t, maxTokens, endExclusive, s) == t > maxTokens /\ endExclusive > s

RECURSIVE Fill(_, _, _, _, _)
Fill(paras, s, endExclusive, combined, maxTokens) ==
    IF endExclusive >= Len(paras)
    THEN [endExclusive |-> endExclusive, text |-> combined]
    ELSE LET next == Append(combined, paras[endExclusive + 1])
             t == approxTokenCount(next)
         IN IF FillBreakBefore(t, maxTokens, endExclusive, s)
            THEN [endExclusive |-> endExclusive, text |-> combined]
            ELSE IF t >= maxTokens
                 THEN [endExclusive |-> endExclusive + 1, text |-> next]
                 ELSE Fill(paras, s, endExclusive + 1, next, maxTokens)

\* if (overlapAccum >= overlapTokens) break;
OverlapReached_Strict(overlapAccum, overlapTokens) == overlapAccum > overlapTokens
OverlapReached(overlapAccum, overlapTokens) == overlapAccum >= overlapTokens

\* Backward walk from endExclusive until >= overlapTokens are collected.
RECURSIVE OverlapWalk(_, _, _, _, _)
OverlapWalk(paras, s, overlapStart, overlapAccum, overlapTokens) ==
    IF overlapStart > s
    THEN LET os == overlapStart - 1
             acc == overlapAccum + approxTokenCount(<<paras[os + 1]>>)
         IN IF OverlapReached(acc, overlapTokens) THEN os
            ELSE OverlapWalk(paras, s, os, acc, overlapTokens)
    ELSE overlapStart

EnsureProgress_NoFloor(overlapStart, s) == overlapStart
EnsureProgress_Stay(overlapStart, s) == Max(overlapStart, s)
EnsureProgress(overlapStart, s) == Max(overlapStart, s + 1)

SlideNoOverlap_SkipOne(endExclusive) == endExclusive + 1
SlideNoOverlap(endExclusive) == endExclusive

\* The step without the overlapTokens === 0 case.
NextStart_AlwaysWalk(paras, s, endExclusive, overlapTokens) ==
    EnsureProgress(OverlapWalk(paras, s, endExclusive, 0, overlapTokens), s)
NextStart(paras, s, endExclusive, overlapTokens) ==
    IF overlapTokens = 0 THEN SlideNoOverlap(endExclusive)
    ELSE EnsureProgress(OverlapWalk(paras, s, endExclusive, 0, overlapTokens), s)

\* One iteration of the outer loop from cursor s: the window pushed, whether
\* the loop breaks after it, and the cursor of the next iteration.
WindowStep(paras, maxTokens, overlapTokens, s) ==
    LET f == Fill(paras, s, s, <<>>, maxTokens)
    IN [window |-> [start |-> s, endExclusive |-> f.endExclusive, text |-> f.text,
                    approxTokens |-> approxTokenCount(f.text)],
        brk |-> f.endExclusive >= Len(paras),
        next |-> NextStart(paras, s, f.endExclusive, overlapTokens)]

\* ------------------------------------------ buildOverlappedWindows, stepwise
WBIdle ==
    /\ wbParas = <<>> /\ wbMax = 1 /\ wbOv = 0
    /\ wbPc = "idle" /\ start = 0 /\ out = <<>> /\ iters = 0

ChunkIdle ==
    /\ hasMetadata = FALSE /\ chapters = <<>> /\ optMax = 1 /\ optOv = 0
    /\ includeChapterHeader = TRUE
    /\ mPc = "idle" /\ chPos = 0 /\ lines = <<>> /\ chunkIndex = 0
    /\ outDirMade = FALSE /\ fileWritten = FALSE /\ fileLines = <<>>

ZeroStats == [filesScanned |-> 0, booksUpserted |-> 0, chunksUpserted |-> 0,
              chunksFailed |-> 0, notes |-> <<>>]

IngestIdle ==
    /\ files = <<>> /\ batchSize = 1 /\ books = <<>> /\ chunks = <<>>
    /\ iPc = "idle" /\ fileIdx = 0 /\ lineIdx = 0 /\ batch = <<>>
    /\ seenBooks = {} /\ stats = ZeroStats /\ logWritten = FALSE
    /\ run = 0 /\ snapshot = <<>> /\ storageFailed = FALSE

ZeroLog == [embedded |-> 0, failed |-> 0, sample |-> "null"]
Infinity == [inf |-> TRUE, n |-> 0]     \* Number.POSITIVE_INFINITY

EmbedIdle ==
    /\ eLimit = 0 /\ eBatchSize = 0 /\ eDryRun = FALSE /\ eApiKey = FALSE
    /\ ePc = "idle" /\ remaining = Infinity /\ eRows = <<>> /\ log = ZeroLog
    /\ eLogWritten = FALSE /\ eOutcome = "none"

PipeIdle ==
    /\ epubs = <<>> /\ keepWorkdir = FALSE
    /\ pPc = "idle" /\ pIdx = 0 /\ pSlug = "" /\ tree = {} /\ stageLog = <<>>

WBInit ==
    /\ ChunkIdle
    /\ IngestIdle
    /\ EmbedIdle
    /\ PipeIdle
    /\ wbParas \in SeqsUpTo(PlainParas, MaxParas)
    /\ wbMax \in (0 - 1)..MaxTok
    /\ wbOv \in (0 - 1)..MaxTok
    /\ wbPc = "entry"
    /\ start = 0
    /\ out = <<>>
    /\ iters = 0

WBValidate ==
    /\ wbPc = "entry"
    /\ wbPc' = IF ConfigError(wbMax, wbOv) THEN "error" ELSE "loop"
    /\ UNCHANGED <<wbParas, wbMax, wbOv, start, out, iters>>
    /\ UNCHANGED <<chVars, inVars, embVars, pipeVars>>

\* iters only counts the iterations; the guard on it caps the counter and
\* never disables an iteration of the code (iters < Len(wbParas) there).
WBIterate ==
    /\ wbPc = "loop"
    /\ start < Len(wbParas)
    /\ iters <= MaxParas
    /\ LET st == WindowStep(wbParas, wbMax, wbOv, start)
       IN /\ out' = Append(out, st.window)
          /\ iters' = iters + 1
          /\ IF st.brk
             THEN wbPc' = "done" /\ start' = start
             ELSE wbPc' = "loop" /\ start' = st.next
    /\ UNCHANGED <<wbParas, wbMax, wbOv>>
    /\ UNCHANGED <<chVars, inVars, embVars, pipeVars>>

WBExit ==
    /\ wbPc = "loop"
    /\ start >= Len(wbParas)
    /\ wbPc' = "done"
    /\ UNCHANGED <<wbParas, wbMax, wbOv, start, out, iters>>
    /\ UNCHANGED <<chVars, inVars, embVars, pipeVars>>

WBNext == WBValidate \/ WBIterate \/ WBExit

SpecWB == WBInit /\ [][WBNext]_vars

\* The function is straight-line sequential code: an enabled step is taken.
SpecWBFair == WBInit /\ [][WBNext]_vars /\ WF_vars(WBNext)

ValidConfig == ~ConfigError(wbMax, wbOv)
ParagraphCount == Len(wbParas)

\* C1: for a valid configuration buildOverlappedWindows terminates, its outer
\* loop runs at most paragraphCount times and it emits at most paragraphCount
\* windows (none for an empty sequence).
C1_Terminates ==
    /\ [](ValidConfig => /\ iters <= ParagraphCount
                          /\ Len(out) <= ParagraphCount
                          /\ Len(out) = iters)
    /\ <>(wbPc \in {"done", "error"})
    /\ [](ValidConfig => <>(wbPc = "done"))

C1_Witness ==
    /\ wbPc = "done"
    /\ ParagraphCount >= 3
    /\ iters = ParagraphCount
    /\ wbOv > 0

\* C2: the start values of the emitted windows are strictly increasing.
C2_StartsIncrease ==
    \A i \in 1..(Len(out) - 1) : out[i + 1].start > out[i].start

C2_Witness ==
    /\ wbPc = "done"
    /\ Len(out) >= 3
    /\ \E i \in 1..(Len(out) - 1) : out[i + 1].start < out[i].endExclusive

\* C3: coverage. The first window starts at 0, each next window starts at or
\* before the previous endExclusive, and on return the last window ends at
\* paragraphCount, so every paragraph index lies in some window.
C3_Coverage ==
    /\ Len(out) > 0 => out[1].start = 0
    /\ \A i \in 1..(Len(out) - 1) : out[i + 1].start <= out[i].endExclusive
    /\ wbPc = "done" =>
          /\ ParagraphCount > 0 => Len(out) > 0 /\ out[Len(out)].endExclusive = ParagraphCount
          /\ \A idx \in 0..(ParagraphCount - 1) :
                \E i \in 1..Len(out) : out[i].start <= idx /\ idx < out[i].endExclusive

C3_Witness ==
    /\ wbPc = "done"
    /\ ParagraphCount = MaxParas
    /\ Len(out) >= 2
    /\ wbOv = 0

\* C4: every emitted window has 0 <= start < endExclusive <= paragraphCount,
\* also when the paragraph at start alone costs more than maxTokens.
C4_WindowBounds ==
    \A i \in 1..Len(out) :
        /\ 0 <= out[i].start
        /\ out[i].start < out[i].endExclusive
        /\ out[i].endExclusive <= ParagraphCount

C4_Witness ==
    \E i \in 1..Len(out) :
        /\ wbParas[out[i].start + 1].tok > wbMax
        /\ out[i].endExclusive = out[i].start + 1
        /\ out[i].start > 0

\* C5: a window of two or more paragraphs has approxTokens <= maxTokens, and
\* a paragraph that alone costs more than maxTokens is only ever emitted as
\* a one-paragraph window.
C5_TokenBudget ==
    \A i \in 1..Len(out) :
        /\ out[i].endExclusive - out[i].start >= 2 => out[i].approxTokens <= wbMax
        /\ \A idx \in out[i].start..(out[i].endExclusive - 1) :
              wbParas[idx + 1].tok > wbMax =>
                  out[i].start = idx /\ out[i].endExclusive = idx + 1

C5_Witness ==
    /\ wbPc = "done"
    /\ \E i \in 1..Len(out) :
          out[i].endExclusive - out[i].start >= 2 /\ out[i].approxTokens = wbMax
    /\ \E i \in 1..Len(out) : wbParas[out[i].start + 1].tok > wbMax

\* ---------------------------------------------- 02_chunk_markdown: main
\* buildOverlappedWindows as called by main: throws on a bad configuration,
\* otherwise returns the windows of the whole outer loop.  The loop runs at
\* most Len(paras) times; the test on Len(acc) keeps the recursion bounded.
RECURSIVE WindowsFrom(_, _, _, _, _)
WindowsFrom(paras, maxTokens, overlapTokens, s, acc) ==
    IF s < Len(paras) /\ Len(acc) <= Len(paras)
    THEN LET st == WindowStep(paras, maxTokens, overlapTokens, s)
         IN IF st.brk THEN Append(acc, st.window)
            ELSE WindowsFrom(paras, maxTokens, overlapTokens, st.next, Append(acc, st.window))
    ELSE acc

buildOverlappedWindows(paras, maxTokens, overlapTokens) ==
    IF ConfigError(maxTokens, overlapTokens)
    THEN [threw |-> TRUE, windows |-> <<>>]
    ELSE [threw |-> FALSE, windows |-> WindowsFrom(paras, maxTokens, overlapTokens, 0, <<>>)]

\* `# ${ch.title}`: the "#" and the words of the title.
chapterHeader == [hdr |-> TRUE, tok |-> 1 + TitleWords]

FileParas == {Para(c) : c \in 1..MaxChapCost} \cup {chapterHeader}

parasWithHeader(paragraphs, flag) ==
    IF flag
    THEN <<chapterHeader>> \o SelectSeq(paragraphs, LAMBDA p : p # chapterHeader)
    ELSE paragraphs

\* String(n): the decimal digits of n.
RECURSIVE Digits(_)
Digits(n) == IF n < 10 THEN <<n>> ELSE Append(Digits(n \div 10), n % 10)

\* padStart never truncates; it only fills on the left.
padStart(str, width, fill) ==
    IF Len(str) >= width THEN str
    ELSE [i \in 1..(width - Len(str)) |-> fill] \o str

bookSlug == "book"

ChunkId(slug, index) == <<"chunk", slug, padStart(Digits(index), PadWidth, 0)>>

\* sha256 of a text, as an ideal hash: a function of the text alone.
sha256Hex(text) == <<"sha256", text>>

NextChunkIndex_Stuck(index) == index
NextChunkIndex(index) == index + 1

\* The loop over the windows of one chapter: a window whose trimmed text is
\* empty is skipped and consumes no index.
RECURSIVE EmitWindows(_, _, _)
EmitWindows(ch, windows, st) ==
    IF windows = <<>> THEN st
    ELSE LET w == Head(windows)
         IN IF approxTokenCount(w.text) = 0
            THEN EmitWindows(ch, Tail(windows), st)
            ELSE LET record == [chunkId |-> ChunkId(bookSlug, st.chunkIndex),
                                slug |-> bookSlug,
                                chapterOrder |-> ch.order,
                                chapterId |-> ch.id,
                                index |-> st.chunkIndex,
                                approxTokens |-> w.approxTokens,
                                startParagraph |-> w.start,
                                endParagraphExclusive |-> w.endExclusive,
                                sha256 |-> sha256Hex(w.text),
                                text |-> w.text]
                 IN EmitWindows(ch, Tail(windows),
                                [lines |-> Append(st.lines, record),
                                 chunkIndex |-> NextChunkIndex(st.chunkIndex)])

\* [...metadata.chapters].sort((a, b) => a.order - b.order): a stable sort.
RECURSIVE InsertByOrder(_, _)
InsertByOrder(sorted, ch) ==
    IF sorted = <<>> THEN <<ch>>
    ELSE IF sorted[Len(sorted)].order <= ch.order THEN Append(sorted, ch)
         ELSE Append(InsertByOrder(SubSeq(sorted, 1, Len(sorted) - 1), ch), sorted[Len(sorted)])

RECURSIVE SortByOrder(_)
SortByOrder(chs) ==
    IF chs = <<>> THEN <<>>
    ELSE InsertByOrder(SortByOrder(SubSeq(chs, 1, Len(chs) - 1)), chs[Len(chs)])

chaptersSorted == SortByOrder(chapters)

\* fs.pathExists(chapterPath) is false: the chapter is skipped.
ChapterMissing_Never(ch) == FALSE
ChapterMissing(ch) == ~ch.exists

\* One pass of the body of `for (const ch of chaptersSorted)` from the state
\* st = [lines, chunkIndex]; threw tells that the body threw.
ChunkChapter(ch, st, maxTokens, overlapTokens, flag) ==
    IF ChapterMissing(ch) THEN [threw |-> FALSE, st |-> st]
    ELSE IF ~ch.exists THEN [threw |-> TRUE, st |-> st]   \* fs.readFile rejects
    ELSE LET r == buildOverlappedWindows(parasWithHeader(ch.paras, flag),
                                         maxTokens, overlapTokens)
         IN IF r.threw THEN [threw |-> TRUE, st |-> st]
            ELSE [threw |-> FALSE, st |-> EmitWindows(ch, r.windows, st)]

\* A chapter of metadata.json together with its file: id is its position in
\* metadata.chapters, paras the paragraphs splitIntoParagraphs finds in the file.
ChapterFiles ==
    {[exists |-> TRUE, paras |-> ps] : ps \in SeqsUpTo(FileParas, MaxChapParas)}
        \cup {[exists |-> FALSE, paras |-> <<>>]}

\* The order fields of metadata.chapters: as 01_extract_epub writes them
\* (ascending), reversed, or all equal.
OrderPatterns == {"ascending", "descending", "equal"}

ChapterOrder(pattern, i, n) ==
    CASE pattern = "ascending" -> i - 1
      [] pattern = "descending" -> n - i
      [] OTHER -> 0

MkChapters(fs, pattern) ==
    [i \in 1..Len(fs) |-> [id |-> i, order |-> ChapterOrder(pattern, i, Len(fs)),
                           exists |-> fs[i].exists, paras |-> fs[i].paras]]

\* --includeChapterHeader is declared with default true; both values of
\* opts.includeChapterHeader are tried.
ChunkInit ==
    /\ WBIdle
    /\ IngestIdle
    /\ EmbedIdle
    /\ PipeIdle
    /\ hasMetadata \in BOOLEAN
    /\ \E fs \in SeqsUpTo(ChapterFiles, MaxChapters), pattern \in OrderPatterns :
          /\ ~hasMetadata => fs = <<>>
          /\ chapters = MkChapters(fs, pattern)
    /\ optMax \in (0 - 1)..MaxOptTok
    /\ optOv \in (0 - 1)..MaxOptTok
    /\ includeChapterHeader \in BOOLEAN
    /\ mPc = "start"
    /\ chPos = 0
    /\ lines = <<>>
    /\ chunkIndex = 0
    /\ outDirMade = FALSE
    /\ fileWritten = FALSE
    /\ fileLines = <<>>

\* main up to the chapter loop: ensureDir(outDir), then metadata.json.
MainStart ==
    /\ mPc = "start"
    /\ outDirMade' = TRUE
    /\ mPc' = IF hasMetadata THEN "chapters" ELSE "error"
    /\ UNCHANGED <<chPos, lines, chunkIndex, fileWritten, fileLines>>
    /\ UNCHANGED <<chInputs, wbVars, inVars, embVars, pipeVars>>

\* One iteration of the chapter loop.
MainChapter ==
    /\ mPc = "chapters"
    /\ chPos < Len(chaptersSorted)
    /\ LET r == ChunkChapter(chaptersSorted[chPos + 1],
                             [lines |-> lines, chunkIndex |-> chunkIndex],
                             optMax, optOv, includeChapterHeader)
       IN IF r.threw
          THEN /\ mPc' = "error"
               /\ UNCHANGED <<chPos, lines, chunkIndex>>
          ELSE /\ mPc' = "chapters"
               /\ chPos' = chPos + 1
               /\ lines' = r.st.lines
               /\ chunkIndex' = r.st.chunkIndex
    /\ UNCHANGED <<outDirMade, fileWritten, fileLines>>
    /\ UNCHANGED <<chInputs, wbVars, inVars, embVars, pipeVars>>

\* After the loop: fs.writeFile(chunksPath, lines.join('\n') + ...).
MainWrite ==
    /\ mPc = "chapters"
    /\ chPos >= Len(chaptersSorted)
    /\ fileWritten' = TRUE
    /\ fileLines' = lines
    /\ mPc' = "done"
    /\ UNCHANGED <<chPos, lines, chunkIndex, outDirMade>>
    /\ UNCHANGED <<chInputs, wbVars, inVars, embVars, pipeVars>>

ChunkNext == MainStart \/ MainChapter \/ MainWrite

SpecChunk == ChunkInit /\ [][ChunkNext]_vars

ValidOpts == ~ConfigError(optMax, optOv)

\* The chunking of a chapter list from the empty state, chapter by chapter.
RECURSIVE ChunkAll(_, _)
ChunkAll(chs, st) ==
    IF chs = <<>> THEN st
    ELSE ChunkAll(Tail(chs),
                  ChunkChapter(Head(chs), st, optMax, optOv, includeChapterHeader).st)

\* C6: a run configured with maxTokens <= 0, overlapTokens < 0 or
\* overlapTokens >= maxTokens is rejected before any output is produced: it
\* never completes, emits no chunk record and writes no chunks file.
C6_RejectedBeforeOutput ==
    ~ValidOpts => mPc # "done" /\ lines = <<>> /\ ~fileWritten

\* C7: the records of a run carry chunk.index 0, 1, ..., N-1 in output order
\* (chapters by ascending order, windows in emission order), chunkId is the
\* one derived from (book slug, index), and no two records share a chunkId.
C7_SequentialIndex ==
    /\ chunkIndex = Len(lines)
    /\ \A i \in 1..Len(lines) :
          /\ lines[i].index = i - 1
          /\ lines[i].chunkId = ChunkId(bookSlug, i - 1)
    /\ \A i, j \in 1..Len(lines) : i # j => lines[i].chunkId # lines[j].chunkId
    /\ \A i \in 1..(Len(lines) - 1) :
          \/ lines[i].chapterOrder < lines[i + 1].chapterOrder
          \/ /\ lines[i].chapterOrder = lines[i + 1].chapterOrder
             /\ lines[i].chapterId < lines[i + 1].chapterId
          \/ /\ lines[i].chapterId = lines[i + 1].chapterId
             /\ lines[i].startParagraph < lines[i + 1].startParagraph
    /\ mPc = "done" => fileLines = lines

C7_Witness ==
    /\ mPc = "done"
    /\ Len(fileLines) >= 4
    /\ \E i, j \in 1..Len(fileLines) :
          /\ i + 1 < j
          /\ fileLines[i].chapterId = fileLines[i + 1].chapterId
          /\ fileLines[j].chapterId # fileLines[i].chapterId
          /\ fileLines[j].chapterId = fileLines[j - 1].chapterId
    /\ chapters[1].order > chapters[2].order

EmptyChapter(ch) == ch.exists /\ ch.paras = <<>>

\* C9: a chapter whose file exists but holds no paragraph yields no chunk
\* record and no error, whatever the value of the chapter-header flag.
C9_EmptyChapterNoRecord ==
    /\ \A i \in 1..Len(lines) :
          \A k \in 1..Len(chapters) :
              EmptyChapter(chapters[k]) => lines[i].chapterId # chapters[k].id
    /\ (hasMetadata /\ ValidOpts) => mPc # "error"

\* C10: a missing chapter file does not fail the run and leaves no trace in
\* the output: the chunks file written is the one the run would write for the
\* same book without the missing chapters, with indices 0..N-1.
C10_MissingChapterSkipped ==
    /\ (hasMetadata /\ ValidOpts) => mPc # "error"
    /\ \A i \in 1..Len(lines) : chapters[lines[i].chapterId].exists
    /\ mPc = "done" =>
          /\ fileWritten
          /\ fileLines = ChunkAll(SelectSeq(chaptersSorted, LAMBDA ch : ch.exists),
                                  [lines |-> <<>>, chunkIndex |-> 0]).lines
          /\ \A i \in 1..Len(fileLines) : fileLines[i].index = i - 1

C10_Witness ==
    /\ mPc = "done"
    /\ Len(chaptersSorted) = 2
    /\ ~chaptersSorted[1].exists
    /\ chaptersSorted[2].exists
    /\ Len(fileLines) >= 2
    /\ fileLines[1].index = 0

\* ------------------------------------------------------ 04_ingest_pg: main
\* A line of a chunk file.  A field that is absent (or the empty string) is
\* "", which is what the code's truthiness tests see.  extractedAt "bad" is a
\* string new Date() cannot parse: toISOString() throws on it.
Rec(id, slug, text, title, at) ==
    [kind |-> "rec", chunkId |-> id, slug |-> slug, text |-> text,
     title |-> title, extractedAt |-> at]
BlankLine == [kind |-> "blank"]
GarbageLine == [kind |-> "garbage"]     \* JSON.parse throws
NullLine == [kind |-> "null"]           \* the JSON value null
NoTail == [kind |-> "none"]             \* the file ends with a newline

LineSet ==
    {Rec("c1", "b1", "t1", "A", "d1"),
     Rec("c1", "b1", "t2", "B", "d1"),
     Rec("c2", "b2", "t1", "A", ""),
     Rec("c3", "b3", "t1", "A", "bad"),
     Rec("c2", "b1", "", "A", "d1"),
     GarbageLine, NullLine, BlankLine}

\* if (!rec.chunkId || !rec.book?.slug || !rec.text) continue;
Accepted(rec) ==
    /\ rec.kind = "rec"
    /\ rec.chunkId # ""
    /\ rec.slug # ""
    /\ rec.text # ""

\* book.extractedAt ? new Date(book.extractedAt).toISOString() : null
DateThrows(rec) == rec.extractedAt = "bad"
ExtractedAtValue(rec) == IF rec.extractedAt = "" THEN "NULL" ELSE <<"iso", rec.extractedAt>>

\* INSERT INTO rag.books ... ON CONFLICT (book_slug) DO UPDATE SET ...
\* A table is the sequence of its rows.
upsertBook_Nothing(tbl, rec) == tbl
upsertBook(tbl, rec) ==
    LET row == [book_slug |-> rec.slug, title |-> rec.title,
                extracted_at |-> ExtractedAtValue(rec)]
    IN IF \E i \in 1..Len(tbl) : tbl[i].book_slug = rec.slug
       THEN [i \in 1..Len(tbl) |-> IF tbl[i].book_slug = rec.slug THEN row ELSE tbl[i]]
       ELSE Append(tbl, row)

\* One tuple of INSERT INTO rag.chunks ... ON CONFLICT (chunk_id) DO UPDATE:
\* the listed columns are overwritten (book_slug and text stand for the 15 of
\* them), the embedding columns are not in the statement.
upsertChunk_ClearEmbedding(tbl, rec) ==
    IF \E i \in 1..Len(tbl) : tbl[i].chunk_id = rec.chunkId
    THEN [i \in 1..Len(tbl) |->
            IF tbl[i].chunk_id = rec.chunkId
            THEN [tbl[i] EXCEPT !.book_slug = rec.slug, !.text = rec.text,
                                !.embedding = "NULL"]
            ELSE tbl[i]]
    ELSE Append(tbl, [chunk_id |-> rec.chunkId, book_slug |-> rec.slug,
                      text |-> rec.text, embedding |-> "NULL"])
InsertPlain(tbl, rec) ==
    Append(tbl, [chunk_id |-> rec.chunkId, book_slug |-> rec.slug,
                 text |-> rec.text, embedding |-> "NULL"])
upsertChunk(tbl, rec) ==
    IF \E i \in 1..Len(tbl) : tbl[i].chunk_id = rec.chunkId
    THEN [i \in 1..Len(tbl) |->
            IF tbl[i].chunk_id = rec.chunkId
            THEN [tbl[i] EXCEPT !.book_slug = rec.slug, !.text = rec.text]
            ELSE tbl[i]]
    ELSE Append(tbl, [chunk_id |-> rec.chunkId, book_slug |-> rec.slug,
                      text |-> rec.text, embedding |-> "NULL"])

RECURSIVE upsertChunkBatch(_, _)
upsertChunkBatch(tbl, rows) ==
    IF rows = <<>> THEN tbl
    ELSE upsertChunkBatch(upsertChunk(tbl, Head(rows)), Tail(rows))

\* One statement cannot update the same row twice: a batch holding two
\* records with the same chunkId is refused by the database.
BatchAccepted(rows) ==
    \A i, j \in 1..Len(rows) : i # j => rows[i].chunkId # rows[j].chunkId

\* A handler that counts a failed batch as one failure.
FlushResult_CountOne(b, ok, tbl, st, f, final) ==
    IF b = <<>> THEN [chunks |-> tbl, stats |-> st]
    ELSE IF ok
         THEN [chunks |-> upsertChunkBatch(tbl, b),
               stats |-> [st EXCEPT !.chunksUpserted = @ + Len(b)]]
         ELSE [chunks |-> tbl,
               stats |-> [st EXCEPT !.chunksFailed = @ + 1,
                                    !.notes = Append(@, [file |-> f, final |-> final])]]
\* flush() and the code around its two calls, on the batch b of file f:
\* ok says whether the query succeeded; final tells the call after the loop.
FlushResult(b, ok, tbl, st, f, final) ==
    IF b = <<>> THEN [chunks |-> tbl, stats |-> st]
    ELSE IF ok
         THEN [chunks |-> upsertChunkBatch(tbl, b),
               stats |-> [st EXCEPT !.chunksUpserted = @ + Len(b)]]
         ELSE [chunks |-> tbl,
               stats |-> [st EXCEPT !.chunksFailed = @ + Len(b),
                                    !.notes = Append(@, [file |-> f, final |-> final])]]

\* The files found: at most MaxFiles files and MaxLines lines in all; the
\* last line of a file may lack its newline (tail).
SeqsOfLen(S, n) == {ls \in SeqsUpTo(S, n) : Len(ls) = n}

FilesOfSize(k) ==
    {[lines |-> ls, tail |-> NoTail] : ls \in SeqsOfLen(LineSet, k)}
        \cup (IF k = 0 THEN {}
              ELSE {[lines |-> ls, tail |-> t] :
                       ls \in SeqsOfLen(LineSet, k - 1), t \in LineSet \ {BlankLine}})

RECURSIVE FileLists(_, _)
FileLists(n, budget) ==
    IF n = 0 THEN {<<>>}
    ELSE {<<>>} \cup UNION {UNION {{<<f>> \o rest : rest \in FileLists(n - 1, budget - k)} :
                                      f \in FilesOfSize(k)} : k \in 0..budget}

InitialTables ==
    {[books |-> <<>>, chunks |-> <<>>],
     [books |-> <<[book_slug |-> "b1", title |-> "Z", extracted_at |-> "NULL"]>>,
      chunks |-> <<[chunk_id |-> "c1", book_slug |-> "b1", text |-> "t0",
                    embedding |-> "e0"]>>]}

IngestInit ==
    /\ WBIdle
    /\ ChunkIdle
    /\ EmbedIdle
    /\ PipeIdle
    /\ files \in FileLists(MaxFiles, MaxLines)
    /\ batchSize \in 1..MaxBatch
    /\ \E t \in InitialTables : books = t.books /\ chunks = t.chunks
    /\ iPc = "start"
    /\ fileIdx = 0
    /\ lineIdx = 0
    /\ batch = <<>>
    /\ seenBooks = {}
    /\ stats = ZeroStats
    /\ logWritten = FALSE
    /\ run = 1
    /\ snapshot = <<>>
    /\ storageFailed = FALSE

\* main up to the loop over the files: SELECT 1, findChunkFiles.
IngestStart ==
    /\ iPc = "start"
    /\ \E ok \in BOOLEAN :
          IF ok
          THEN /\ stats' = [stats EXCEPT !.filesScanned = Len(files)]
               /\ fileIdx' = 1
               /\ lineIdx' = 1
               /\ iPc' = IF Len(files) = 0 THEN "log" ELSE "lines"
               /\ UNCHANGED storageFailed
          ELSE /\ iPc' = "aborted"
               /\ storageFailed' = TRUE
               /\ UNCHANGED <<stats, fileIdx, lineIdx>>
    /\ UNCHANGED <<batch, seenBooks, logWritten, run, snapshot>>
    /\ UNCHANGED <<inInputs, dbVars, wbVars, chVars, embVars, pipeVars>>

\* if (batch.length >= opts.batchSize): the batch is flushed when it is full.
BatchFull_Late(b, size) == Len(b) > size
BatchFull(b, size) == Len(b) >= size

\* The body of the line loop for one newline-terminated line.
IngestLine ==
    /\ iPc = "lines"
    /\ lineIdx <= Len(files[fileIdx].lines)
    /\ LET rec == files[fileIdx].lines[lineIdx]
       IN IF rec.kind \in {"blank", "garbage"} \/ (rec.kind = "rec" /\ ~Accepted(rec))
          THEN /\ lineIdx' = lineIdx + 1
               /\ UNCHANGED <<iPc, batch, seenBooks, stats, storageFailed, dbVars>>
          ELSE IF rec.kind = "null" \/ (rec.slug \notin seenBooks /\ DateThrows(rec))
          THEN \* rec.chunkId on null, or toISOString(), throws out of main
               /\ iPc' = "aborted"
               /\ UNCHANGED <<lineIdx, batch, seenBooks, stats, storageFailed, dbVars>>
          ELSE \E bookOk, batchOk \in BOOLEAN :
               LET newBook == rec.slug \notin seenBooks
                   b == Append(batch, rec)
                   full == BatchFull(b, batchSize)
                   fl == FlushResult(b, batchOk, chunks, stats, fileIdx, FALSE)
               IN /\ newBook \/ bookOk
                  /\ (full /\ bookOk) \/ batchOk
                  /\ (full /\ bookOk /\ batchOk) => BatchAccepted(b)
                  /\ IF ~bookOk
                     THEN /\ iPc' = "aborted"
                          /\ storageFailed' = TRUE
                          /\ UNCHANGED <<lineIdx, batch, seenBooks, stats, dbVars>>
                     ELSE /\ iPc' = "lines"
                          /\ lineIdx' = lineIdx + 1
                          /\ books' = IF newBook THEN upsertBook(books, rec) ELSE books
                          /\ seenBooks' = seenBooks \cup {rec.slug}
                          /\ storageFailed' = (storageFailed \/ ~batchOk)
                          /\ IF full
                             THEN /\ chunks' = fl.chunks
                                  /\ stats' = [fl.stats EXCEPT !.booksUpserted =
                                                  IF newBook THEN @ + 1 ELSE @]
                                  /\ batch' = <<>>
                             ELSE /\ chunks' = chunks
                                  /\ stats' = [stats EXCEPT !.booksUpserted =
                                                  IF newBook THEN @ + 1 ELSE @]
                                  /\ batch' = b
    /\ UNCHANGED <<fileIdx, logWritten, run, snapshot>>
    /\ UNCHANGED <<inInputs, wbVars, chVars, embVars, pipeVars>>

\* After the stream ends: the last buffered line (inside try/catch, so that
\* whatever throws there drops the line), then the final flush, then the
\* next file.
IngestEndOfFile ==
    /\ iPc = "lines"
    /\ lineIdx > Len(files[fileIdx].lines)
    /\ \E bookOk, batchOk \in BOOLEAN :
       LET rec == files[fileIdx].tail
           acc == rec.kind = "rec" /\ Accepted(rec)
           newBook == acc /\ rec.slug \notin seenBooks
           threw == newBook /\ (DateThrows(rec) \/ ~bookOk)
           pushed == acc /\ ~threw
           b == IF pushed THEN Append(batch, rec) ELSE batch
           st == [stats EXCEPT !.booksUpserted = IF newBook /\ ~threw THEN @ + 1 ELSE @]
           fl == FlushResult(b, batchOk, chunks, st, fileIdx, TRUE)
       IN /\ (newBook /\ ~DateThrows(rec)) \/ bookOk
          /\ b # <<>> \/ batchOk
          /\ batchOk => BatchAccepted(b)
          /\ books' = IF newBook /\ ~threw THEN upsertBook(books, rec) ELSE books
          /\ seenBooks' = IF newBook /\ ~threw THEN seenBooks \cup {rec.slug} ELSE seenBooks
          /\ chunks' = fl.chunks
          /\ stats' = fl.stats
          /\ storageFailed' = (storageFailed \/ ~bookOk \/ ~batchOk)
    /\ batch' = <<>>
    /\ IF fileIdx < Len(files)
       THEN fileIdx' = fileIdx + 1 /\ lineIdx' = 1 /\ iPc' = "lines"
       ELSE fileIdx' = fileIdx /\ lineIdx' = lineIdx /\ iPc' = "log"
    /\ UNCHANGED <<logWritten, run, snapshot>>
    /\ UNCHANGED <<inInputs, wbVars, chVars, embVars, pipeVars>>

\* stats.finishedAt; fs.writeJson(logPath, stats).
IngestWriteLog ==
    /\ iPc = "log"
    /\ logWritten' = TRUE
    /\ iPc' = "done"
    /\ UNCHANGED <<fileIdx, lineIdx, batch, seenBooks, stats, run, snapshot, storageFailed>>
    /\ UNCHANGED <<inInputs, dbVars, wbVars, chVars, embVars, pipeVars>>

\* The script is started again on the same --chunksRoot.
IngestRerun ==
    /\ iPc \in {"done", "aborted"}
    /\ run < 2
    /\ run' = run + 1
    /\ snapshot' = IF run = 1 THEN <<books, chunks>> ELSE snapshot
    /\ iPc' = "start"
    /\ fileIdx' = 0
    /\ lineIdx' = 0
    /\ batch' = <<>>
    /\ seenBooks' = {}
    /\ stats' = ZeroStats
    /\ logWritten' = FALSE
    /\ UNCHANGED storageFailed
    /\ UNCHANGED <<inInputs, dbVars, wbVars, chVars, embVars, pipeVars>>

IngestNext ==
    IngestStart \/ IngestLine \/ IngestEndOfFile \/ IngestWriteLog \/ IngestRerun

SpecIngest == IngestInit /\ [][IngestNext]_vars

UniqueKeys ==
    /\ \A i, j \in 1..Len(chunks) : i # j => chunks[i].chunk_id # chunks[j].chunk_id
    /\ \A i, j \in 1..Len(books) : i # j => books[i].book_slug # books[j].book_slug

\* C8: absent storage failures, a second ingest of the same chunk files
\* leaves rag.books and rag.chunks with exactly the rows and column values
\* they had after the first ingest; no key ever has two rows.
C8_IdempotentIngest ==
    /\ UniqueKeys
    /\ (run >= 2 /\ iPc \in {"done", "aborted"} /\ ~storageFailed)
          => <<books, chunks>> = snapshot

C8_Witness ==
    /\ run = 2
    /\ iPc = "done"
    /\ ~storageFailed
    /\ stats.chunksUpserted >= 2
    /\ \E i \in 1..Len(chunks) : chunks[i].embedding = "e0" /\ chunks[i].text = "t2"

\* The line the loop is at: a newline-terminated line of the current file,
\* or its last buffered line.
CurrentLine ==
    IF lineIdx <= Len(files[fileIdx].lines)
    THEN files[fileIdx].lines[lineIdx]
    ELSE files[fileIdx].tail

\* C11: a line that is not a well-formed record (unparsable, the JSON value
\* null, or a record missing chunkId, book.slug or text) never aborts the
\* run: when the run stops inside a file, the line it stopped at is a
\* well-formed record.
C11_MalformedLineSkipped ==
    (iPc = "aborted" /\ fileIdx >= 1) => Accepted(CurrentLine)

\* C12: a step in which a chunk batch upsert fails (a note is added) adds
\* exactly the number of records of that batch to chunksFailed, leaves
\* chunksUpserted and rag.chunks alone, names the current file in the note,
\* empties the batch, and goes on to the next line, the next file or the
\* run log; it never aborts the run.
C12_BatchFailureCaught ==
    [][Len(stats'.notes) = Len(stats.notes) + 1 =>
        LET inLoop == lineIdx <= Len(files[fileIdx].lines)
            tail == files[fileIdx].tail
            tailPushed == Accepted(tail) /\ tail.slug \in seenBooks'
            n == IF inLoop \/ tailPushed THEN Len(batch) + 1 ELSE Len(batch)
        IN /\ n >= 1
           /\ stats'.chunksFailed = stats.chunksFailed + n
           /\ stats'.chunksUpserted = stats.chunksUpserted
           /\ chunks' = chunks
           /\ stats'.notes[Len(stats'.notes)].file = fileIdx
           /\ stats'.notes[Len(stats'.notes)].final = ~inLoop
           /\ batch' = <<>>
           /\ IF inLoop
              THEN iPc' = "lines" /\ fileIdx' = fileIdx /\ lineIdx' = lineIdx + 1
              ELSE IF fileIdx < Len(files)
                   THEN iPc' = "lines" /\ fileIdx' = fileIdx + 1 /\ lineIdx' = 1
                   ELSE iPc' = "log"]_vars

C12_Witness ==
    /\ iPc = "done"
    /\ logWritten
    /\ stats.chunksFailed = 1
    /\ stats.notes = <<[file |-> 1, final |-> FALSE]>>
    /\ stats.chunksUpserted = 1
    /\ \E i \in 1..Len(chunks) : chunks[i].chunk_id = "c2"
    /\ \A i \in 1..Len(chunks) : chunks[i].chunk_id # "c1"

\* The records of all scanned files that pass the validity check, and the
\* book slugs found among them.
AcceptedRecords ==
    UNION {{<<f, i>> : i \in {j \in 1..Len(files[f].lines) : Accepted(files[f].lines[j])}}
              \cup (IF Accepted(files[f].tail) THEN {<<f, 0>>} ELSE {}) :
           f \in 1..Len(files)}
AcceptedSlugs ==
    {(IF p[2] = 0 THEN files[p[1]].tail ELSE files[p[1]].lines[p[2]]).slug :
        p \in AcceptedRecords}

\* C13: when a run has written its log and no query has failed, the book
\* row has been upserted once for each distinct slug among the accepted
\* records of the scanned files: booksUpserted is the number of those slugs,
\* and each of them is in seenBooks.
C13_BookOncePerSlug ==
    (iPc = "done" /\ ~storageFailed) =>
        /\ stats.booksUpserted = Cardinality(AcceptedSlugs)
        /\ seenBooks = AcceptedSlugs

\* C15: a storage failure of a book-row upsert is recovered locally: the
\* run never stops at a well-formed record whose book values are valid, so
\* that the remaining records and files are processed and the log is written.
C15_BookFailureRecovered ==
    ~(/\ iPc = "aborted"
      /\ fileIdx >= 1
      /\ Accepted(CurrentLine)
      /\ ~DateThrows(CurrentLine))

\* C19: every chunk upsert sent to storage (a step that adds to
\* chunksUpserted or chunksFailed) carries between 1 and batchSize records
\* and leaves the accumulator empty; between steps the accumulator holds
\* fewer than batchSize records; and it is empty whenever the run moves to
\* another file, so no batch spans two files.
C19_BatchBounds ==
    /\ [](Len(batch) < batchSize)
    /\ [][LET sent == (stats'.chunksUpserted + stats'.chunksFailed)
                        - (stats.chunksUpserted + stats.chunksFailed)
          IN /\ sent > 0 => (sent <= batchSize /\ batch' = <<>>)
             /\ fileIdx' # fileIdx => batch' = <<>>]_vars

C19_Witness ==
    /\ iPc = "lines"
    /\ batchSize = 2
    /\ fileIdx = 2
    /\ stats.chunksUpserted = 2
    /\ batch = <<>>

\* C20: when a run has written its log, chunksUpserted + chunksFailed is the
\* number of records of the scanned files that passed the validity check.
C20_Accounting ==
    iPc = "done" =>
        stats.chunksUpserted + stats.chunksFailed = Cardinality(AcceptedRecords)

\* ------------------------------ buildOverlappedWindows: the step between windows
\* C16: with overlapTokens = 0 each window starts at the previous window's
\* endExclusive, and on return every paragraph index lies in exactly one
\* window.
C16_ZeroOverlapTiles ==
    (ValidConfig /\ wbOv = 0) =>
        /\ \A i \in 1..(Len(out) - 1) : out[i + 1].start = out[i].endExclusive
        /\ wbPc = "done" =>
              \A idx \in 0..(ParagraphCount - 1) :
                  Cardinality({i \in 1..Len(out) :
                      out[i].start <= idx /\ idx < out[i].endExclusive}) = 1

C16_Witness ==
    /\ wbPc = "done"
    /\ wbOv = 0
    /\ Len(out) >= 2
    /\ \E i \in 1..Len(out) : out[i].endExclusive - out[i].start >= 2

\* Cost of paragraphs from..to-1 (zero-based), and the index o of the claim:
\* the largest o in [s, e) whose paragraphs o..e-1 cost at least overlapTokens,
\* s when there is none.
RangeCost(paras, from, to) == approxTokenCount(SubSeq(paras, from + 1, to))
OverlapIndex(paras, s, e, overlapTokens) ==
    LET K == {k \in s..(e - 1) : RangeCost(paras, k, e) >= overlapTokens}
    IN IF K = {} THEN s ELSE CHOOSE k \in K : \A j \in K : j <= k

\* C17: with overlapTokens > 0 the window after [s, e) starts at
\* max(o, s + 1); the paragraphs two adjacent windows share cost at least
\* overlapTokens, or the second starts at s + 1.
C17_OverlapStep ==
    (ValidConfig /\ wbOv > 0) =>
        \A i \in 1..(Len(out) - 1) :
            LET s == out[i].start
                e == out[i].endExclusive
                n == out[i + 1].start
                e2 == out[i + 1].endExclusive
                sharedEnd == IF e2 < e THEN e2 ELSE e
            IN /\ n = Max(OverlapIndex(wbParas, s, e, wbOv), s + 1)
               /\ \/ RangeCost(wbParas, n, sharedEnd) >= wbOv
                  \/ n = s + 1

C17_Witness ==
    /\ wbPc = "done"
    /\ wbOv >= 2
    /\ \E i \in 1..(Len(out) - 1) :
          /\ out[i + 1].start > out[i].start + 1
          /\ out[i + 1].start < out[i].endExclusive
    /\ \E i \in 1..(Len(out) - 1) :
          /\ out[i + 1].start = out[i].start + 1
          /\ RangeCost(wbParas, out[i].start + 1, out[i].endExclusive) < wbOv

\* C18: endExclusive is strictly increasing along the windows: every window
\* after the first holds a paragraph the preceding window does not hold.
C18_NoRedundantWindow ==
    ValidConfig =>
        \A i \in 1..(Len(out) - 1) : out[i + 1].endExclusive > out[i].endExclusive

\* ------------------------------------------------------ 03_embed_chunks: main
\* The chunk ids an embed run may find, in ORDER BY chunk_id order.
EmbedIds == SubSeq(<<"c1", "c2", "c3", "c4">>, 1, MaxEmbedRows)

EmbedRowOf(n, e) ==
    [chunk_id |-> EmbedIds[n], book_slug |-> "b1",
     text |-> IF n % 2 = 1 THEN "t1" ELSE "t2", embedding |-> e]

\* rag.chunks at the start of the run: any rows, embedded ("e0") or not.
RECURSIVE EmbedTables(_)
EmbedTables(n) ==
    IF n = 0 THEN {<<>>}
    ELSE LET prev == EmbedTables(n - 1)
         IN prev \cup {Append(t, EmbedRowOf(n, e)) : t \in prev, e \in {"NULL", "e0"}}

\* openaiEmbed: the vector the endpoint returns for an input text, and
\* vectorLiteral: its pgvector text form with 8 decimals.
openaiEmbed(text) == IF text = "t1" THEN "v1" ELSE IF text = "t2" THEN "v2" ELSE "v0"
vectorLiteral(emb) == IF emb = "v1" THEN "[v1]" ELSE IF emb = "v2" THEN "[v2]" ELSE "[v0]"

\* remaining: a number or Infinity.
Finite(n) == [inf |-> FALSE, n |-> n]
Positive(r) == r.inf \/ r.n > 0
Decrement(r) == IF r.inf THEN r ELSE Finite(r.n - 1)
InitialRemaining(limit) == IF limit > 0 THEN Finite(limit) ELSE Infinity
FetchN(size, r) == IF r.inf \/ size <= r.n THEN size ELSE r.n

\* SELECT chunk_id, text ... WHERE embedding IS NULL ORDER BY chunk_id LIMIT n
SelectUnembedded(tbl, n) ==
    LET IsNull(id) == \E i \in 1..Len(tbl) :
                         tbl[i].chunk_id = id /\ tbl[i].embedding = "NULL"
        ids == SelectSeq(EmbedIds, IsNull)
        TextOf(id) == (CHOOSE i \in 1..Len(tbl) : tbl[i].chunk_id = id)
        k == IF n < Len(ids) THEN n ELSE Len(ids)
    IN [j \in 1..k |-> [chunk_id |-> ids[j], text |-> tbl[TextOf(ids[j])].text]]

\* UPDATE ... SET embedding = $1::vector ... WHERE chunk_id = $3
UpdateEmbedding(tbl, id, vec) ==
    [i \in 1..Len(tbl) |->
        IF tbl[i].chunk_id = id THEN [tbl[i] EXCEPT !.embedding = vec] ELSE tbl[i]]

\* log.sample is set by the first row that is embedded.
WithSample(l, id) == IF l.sample = "null" THEN [l EXCEPT !.sample = id] ELSE l

\* The catch of the row loop: log.failed += 1.
RowFailed_Uncounted(l) == l
RowFailed(l) == [l EXCEPT !.failed = @ + 1]

EmbedInit ==
    /\ WBIdle
    /\ ChunkIdle
    /\ PipeIdle
    /\ files = <<>> /\ batchSize = 1 /\ books = <<>>
    /\ iPc = "idle" /\ fileIdx = 0 /\ lineIdx = 0 /\ batch = <<>>
    /\ seenBooks = {} /\ stats = ZeroStats /\ logWritten = FALSE
    /\ run = 0 /\ snapshot = <<>> /\ storageFailed = FALSE
    /\ chunks \in EmbedTables(MaxEmbedRows)
    /\ eLimit \in 0..MaxLimit
    /\ eBatchSize \in 0..MaxFetch
    /\ eDryRun \in BOOLEAN
    /\ eApiKey \in BOOLEAN
    /\ ePc = "start"
    /\ remaining = Infinity
    /\ eRows = <<>>
    /\ log = ZeroLog
    /\ eLogWritten = FALSE
    /\ eOutcome = "none"

embFrame == <<wbVars, chVars, inInputs, books, inState, inHist, embInputs, pipeVars>>

\* SELECT 1, requireEnv('OPENAI_API_KEY'), remaining.
EmbedStart ==
    /\ ePc = "start"
    /\ \E ok \in BOOLEAN :
          IF ok /\ (eDryRun \/ eApiKey)
          THEN ePc' = "fetch" /\ remaining' = InitialRemaining(eLimit)
          ELSE ePc' = "aborted" /\ UNCHANGED remaining
    /\ UNCHANGED <<eRows, log, eLogWritten, eOutcome, chunks, embFrame>>

\* The head of the while loop and the SELECT: the loop ends when nothing
\* remains or no row is returned; a failing SELECT leaves main.
EmbedFetch ==
    /\ ePc = "fetch"
    /\ IF ~Positive(remaining)
       THEN ePc' = "log" /\ UNCHANGED eRows
       ELSE \E ok \in BOOLEAN :
               LET rows == SelectUnembedded(chunks, FetchN(eBatchSize, remaining))
               IN IF ~ok THEN ePc' = "aborted" /\ UNCHANGED eRows
                  ELSE IF rows = <<>> THEN ePc' = "log" /\ UNCHANGED eRows
                  ELSE ePc' = "rows" /\ eRows' = rows
    /\ UNCHANGED <<remaining, log, eLogWritten, eOutcome, chunks, embFrame>>

\* One iteration of the row loop; counted says whether the counters of the
\* log are still followed.
RowStep(counted) ==
    /\ ePc = "rows"
    /\ eRows # <<>>
    /\ LET row == Head(eRows)
           after == IF Tail(eRows) = <<>> THEN "fetch" ELSE "rows"
       IN IF ~Positive(remaining)
          THEN /\ ePc' = "fetch"
               /\ eRows' = <<>>
               /\ UNCHANGED <<remaining, log, eOutcome, chunks>>
          ELSE IF eDryRun
          THEN /\ log' = IF counted
                         THEN WithSample([log EXCEPT !.embedded = @ + 1], row.chunk_id)
                         ELSE log
               /\ remaining' = Decrement(remaining)
               /\ eRows' = Tail(eRows)
               /\ ePc' = after
               /\ eOutcome' = "dry"
               /\ UNCHANGED chunks
          ELSE \E apiOk, updateOk \in BOOLEAN :
               /\ apiOk \/ updateOk
               /\ IF apiOk /\ updateOk
                  THEN /\ chunks' = UpdateEmbedding(chunks, row.chunk_id,
                                        vectorLiteral(openaiEmbed(row.text)))
                       /\ log' = IF counted
                                 THEN WithSample([log EXCEPT !.embedded = @ + 1],
                                                 row.chunk_id)
                                 ELSE log
                       /\ eOutcome' = "embedded"
                  ELSE /\ chunks' = chunks
                       /\ log' = IF counted THEN RowFailed(log) ELSE log
                       /\ eOutcome' = IF apiOk THEN "updateFailed" ELSE "apiFailed"
               /\ remaining' = Decrement(remaining)
               /\ eRows' = Tail(eRows)
               /\ ePc' = after
    /\ UNCHANGED <<eLogWritten, embFrame>>

\* The rows of a run are followed with their counters up to MaxAttempts.
EmbedRow ==
    /\ log.embedded + log.failed < MaxAttempts
    /\ RowStep(TRUE)

\* log.finishedAt; fs.writeJson(logPath, log).
EmbedWriteLog ==
    /\ ePc = "log"
    /\ eLogWritten' = TRUE
    /\ ePc' = "done"
    /\ UNCHANGED <<remaining, eRows, log, eOutcome, chunks, embFrame>>

EmbedNext == EmbedStart \/ EmbedFetch \/ EmbedRow \/ EmbedWriteLog

SpecEmbed == EmbedInit /\ [][EmbedNext]_vars

\* The embedding column of the row with the given chunk_id.
EmbeddingOf(tbl, id) ==
    tbl[CHOOSE i \in 1..Len(tbl) : tbl[i].chunk_id = id].embedding

\* C14: when the embedding call or the row update fails for a chunk, the
\* failed counter grows by one, embedded does not change, the row keeps its
\* NULL embedding and no other row changes, and the run goes on to the next
\* row or the next fetch; it never leaves the row loop by an error.
C14_RowFailureCaught ==
    [][(ePc = "rows" /\ eOutcome' \in {"apiFailed", "updateFailed"}) =>
          /\ log'.failed = log.failed + 1
          /\ log'.embedded = log.embedded
          /\ chunks' = chunks
          /\ EmbeddingOf(chunks', Head(eRows).chunk_id) = "NULL"
          /\ eRows' = Tail(eRows)
          /\ ePc' = IF eRows' = <<>> THEN "fetch" ELSE "rows"
          /\ remaining' = Decrement(remaining)]_vars

C14_Witness ==
    /\ ePc = "done"
    /\ eLogWritten
    /\ log.failed >= 1
    /\ eOutcome = "embedded"
    /\ EmbeddingOf(chunks, "c1") = "NULL"
    /\ EmbeddingOf(chunks, "c2") = "[v2]"

\* ------------------------------------------- 04_ingest_pg: order and frame
HasBook(tbl, slug) == \E i \in 1..Len(tbl) : tbl[i].book_slug = slug

\* C21: every record waiting in the batch, and every chunk row a step writes,
\* belongs to a slug whose book row has been upserted earlier in this run
\* (the slug is in seenBooks and rag.books holds its row).
C21_BookBeforeChunk ==
    /\ [](\A i \in 1..Len(batch) :
             batch[i].slug \in seenBooks /\ HasBook(books, batch[i].slug))
    /\ [][\A i \in 1..Len(chunks') :
             (i > Len(chunks) \/ chunks'[i] # chunks[i]) =>
                 /\ chunks'[i].book_slug \in seenBooks'
                 /\ HasBook(books', chunks'[i].book_slug)]_vars

C21_Witness ==
    /\ iPc = "lines"
    /\ Len(batch) = 1
    /\ batch[1].slug = "b2"
    /\ \E i \in 1..Len(chunks) : chunks[i].book_slug = "b1" /\ chunks[i].text = "t1"

\* The chunk ids of the accepted records of the scanned files.
AcceptedChunkIds ==
    {(IF p[2] = 0 THEN files[p[1]].tail ELSE files[p[1]].lines[p[2]]).chunkId :
        p \in AcceptedRecords}

\* C23: a step of an ingest run never removes or reorders a row of rag.books
\* or rag.chunks, never changes a row whose key is not in the ingested files,
\* never changes the embedding of a row, and only adds rows whose key is in
\* the files.
C23_IngestFrame ==
    [][/\ Len(chunks') >= Len(chunks)
       /\ Len(books') >= Len(books)
       /\ \A i \in 1..Len(chunks) :
             /\ chunks'[i].chunk_id = chunks[i].chunk_id
             /\ chunks'[i].embedding = chunks[i].embedding
             /\ chunks[i].chunk_id \notin AcceptedChunkIds => chunks'[i] = chunks[i]
       /\ \A i \in (Len(chunks) + 1)..Len(chunks') :
             chunks'[i].chunk_id \in AcceptedChunkIds
       /\ \A i \in 1..Len(books) :
             /\ books'[i].book_slug = books[i].book_slug
             /\ books[i].book_slug \notin AcceptedSlugs => books'[i] = books[i]
       /\ \A i \in (Len(books) + 1)..Len(books') :
             books'[i].book_slug \in AcceptedSlugs]_vars

C23_Witness ==
    /\ iPc = "done"
    /\ stats.chunksUpserted >= 1
    /\ Len(chunks) = 2
    /\ chunks[1] = [chunk_id |-> "c1", book_slug |-> "b1", text |-> "t0", embedding |-> "e0"]
    /\ chunks[2].chunk_id = "c2"
    /\ books[1].title = "Z"

\* ------------------------------------------- 03_embed_chunks: termination
\* Beyond MaxAttempts rows the loop goes on as the code does, with the
\* counters of the log left where they are, so that the states of a run that
\* never ends are finitely many.
EmbedRowOn ==
    /\ log.embedded + log.failed >= MaxAttempts
    /\ RowStep(FALSE)

EmbedLoopNext == EmbedNext \/ EmbedRowOn

\* main is sequential code: a step that can be taken is taken.
SpecEmbedFair == EmbedInit /\ [][EmbedLoopNext]_vars /\ WF_vars(EmbedLoopNext)

\* C24: an embed run ends, whatever the options: it writes its log, or
\* leaves main by an error of the connection or the configuration.
C24_EmbedTerminates == <>(ePc \in {"done", "aborted"})

\* ----------------------- ingest runs and embed runs on the same rag.chunks
\* The chunk files of the runs: one file of records for two chunk ids, the
\* first of them with either of two texts.
StoreLineSet ==
    {Rec("c1", "b1", "t1", "A", "d1"),
     Rec("c1", "b1", "t2", "A", "d1"),
     Rec("c2", "b2", "t1", "A", "")}
StoreFiles ==
    {<<[lines |-> ls, tail |-> NoTail]>> : ls \in SeqsUpTo(StoreLineSet, MaxLines)}

\* An embedding is current when it is the stored form of the vector of the
\* row's text.
EmbeddingCurrent(row) ==
    row.embedding = "NULL" \/ row.embedding = vectorLiteral(openaiEmbed(row.text))

\* The tables left by earlier runs: empty, or one chunk embedded from its text.
StoreTables ==
    {[books |-> <<>>, chunks |-> <<>>],
     [books |-> <<[book_slug |-> "b1", title |-> "A", extracted_at |-> <<"iso", "d1">>]>>,
      chunks |-> <<[chunk_id |-> "c1", book_slug |-> "b1", text |-> "t1",
                    embedding |-> vectorLiteral(openaiEmbed("t1"))]>>]}

StoreInit ==
    /\ WBIdle
    /\ ChunkIdle
    /\ PipeIdle
    /\ files \in StoreFiles
    /\ batchSize \in 1..MaxBatch
    /\ \E t \in StoreTables : books = t.books /\ chunks = t.chunks
    /\ iPc = "start" /\ fileIdx = 0 /\ lineIdx = 0 /\ batch = <<>>
    /\ seenBooks = {} /\ stats = ZeroStats /\ logWritten = FALSE
    /\ run = 1 /\ snapshot = <<>> /\ storageFailed = FALSE
    /\ eLimit = 0 /\ eBatchSize = MaxFetch /\ eDryRun = FALSE /\ eApiKey = TRUE
    /\ ePc = "idle" /\ remaining = Infinity /\ eRows = <<>> /\ log = ZeroLog
    /\ eLogWritten = FALSE /\ eOutcome = "none"

\* 03_embed_chunks is started once an ingest run is over.
EmbedBegin ==
    /\ iPc \in {"done", "aborted"}
    /\ ePc \in {"idle", "done", "aborted"}
    /\ ePc' = "start"
    /\ remaining' = Infinity
    /\ eRows' = <<>>
    /\ log' = ZeroLog
    /\ eLogWritten' = FALSE
    /\ eOutcome' = "none"
    /\ UNCHANGED <<chunks, embFrame>>

\* The runs follow each other: an ingest run steps while no embed run is
\* under way, an embed run is started after an ingest run.
StoreIngest ==
    /\ ePc \in {"idle", "done", "aborted"}
    /\ IngestNext

StoreNext == StoreIngest \/ EmbedBegin \/ EmbedNext

SpecStore == StoreInit /\ [][StoreNext]_vars

\* C22: every row of rag.chunks with a non-NULL embedding holds the embedding
\* computed from the text the row holds now.
C22_EmbeddingCurrent ==
    \A i \in 1..Len(chunks) : EmbeddingCurrent(chunks[i])

\* ------------------------------------------------------- 00_pipeline: main
\* A file name is the sequence of its characters, without the .epub at its
\* end.  Three characters stand for the classes the code tells apart: a
\* letter, the underscore (both kept by the replace) and the space (replaced).
NameChars == {"a", "_", " "}
Names == SeqsUpTo(NameChars, MaxNameLen) \ {<<>>}

\* Order of the characters in a path, "." being the one after the name.
CharRank(c) == IF c = " " THEN 1 ELSE IF c = "." THEN 2 ELSE IF c = "_" THEN 3 ELSE 4

\* .sort() of the paths: p.epub before q.epub.
RECURSIVE SeqLess(_, _)
SeqLess(p, q) ==
    IF p = <<>> THEN q # <<>>
    ELSE IF q = <<>> THEN FALSE
    ELSE IF Head(p) # Head(q) THEN CharRank(Head(p)) < CharRank(Head(q))
    ELSE SeqLess(Tail(p), Tail(q))
PathLess(p, q) == SeqLess(Append(p, "."), Append(q, "."))

\* listEpubs: the .epub files of the input directory, sorted.
listEpubs ==
    {l \in SeqsUpTo(Names, MaxEpubs) :
        \A i \in 1..(Len(l) - 1) : PathLess(l[i], l[i + 1])}

\* name.replace(/[^a-zA-Z0-9._-]+/g, '_'): each run of other characters
\* becomes one underscore.  inRun tells that the previous one was replaced.
Kept(c) == c # " "
RECURSIVE Sanitize(_, _)
Sanitize(name, inRun) ==
    IF name = <<>> THEN <<>>
    ELSE IF Kept(Head(name)) THEN <<Head(name)>> \o Sanitize(Tail(name), FALSE)
    ELSE IF inRun THEN Sanitize(Tail(name), TRUE)
    ELSE <<"_">> \o Sanitize(Tail(name), TRUE)

\* The per-EPUB work directory, as its name under the run's workDir.
WorkName(epubPath) ==
    LET name == Sanitize(epubPath, FALSE)
    IN SubSeq(name, 1, IF Len(name) < SliceLen THEN Len(name) ELSE SliceLen)

\* How a spawned stage ends: exit code 0, another exit code, or no process.
StageResults == {"exit0", "nonzero", "spawnError"}

\* run(): resolves on exit code 0, rejects otherwise.
StageOk_Any(result) == TRUE
StageOk(result) == result = "exit0"

\* The book directories the extract script may write (slug of the title).
BookSlugs == {"s1", "s2"}

\* A file under the work directory: the per-EPUB directory, extract or
\* chunks, the book directory in it, and the EPUB it was produced for.
Entry(dir, kind, slug, by) == [dir |-> dir, kind |-> kind, slug |-> slug, by |-> by]

\* findSingleSubdir: the directories directly under extract.
SubdirsOf(t, dir) == {e.slug : e \in {x \in t : x.dir = dir /\ x.kind = "extract"}}

\* findChunkFiles under chunkRoot: the EPUBs whose chunk files are read.
ChunkSources(t, dir) == {e.by : e \in {x \in t : x.dir = dir /\ x.kind = "chunks"}}

Stage(epub, stage, result, read) ==
    [epub |-> epub, stage |-> stage, result |-> result, read |-> read]

PipeInit ==
    /\ WBIdle
    /\ ChunkIdle
    /\ IngestIdle
    /\ EmbedIdle
    /\ epubs \in listEpubs
    /\ keepWorkdir \in BOOLEAN
    /\ pPc = "start"
    /\ pIdx = 0
    /\ pSlug = ""
    /\ tree = {}
    /\ stageLog = <<>>

pipeFrame == <<wbVars, chVars, inVars, embVars, pipeInputs>>

\* main up to the loop: no EPUB found is an error before workDir is made.
PipeStart ==
    /\ pPc = "start"
    /\ IF epubs = <<>>
       THEN pPc' = "failed" /\ pIdx' = pIdx
       ELSE pPc' = "extract" /\ pIdx' = 1
    /\ UNCHANGED <<pSlug, tree, stageLog, pipeFrame>>

\* Stage 1: npm run extract:epub <epub> --out <oneWork>/extract.
PipeExtract ==
    /\ pPc = "extract"
    /\ \E result \in StageResults, slug \in BookSlugs :
          /\ stageLog' = Append(stageLog, Stage(pIdx, "extract", result, {}))
          /\ IF StageOk(result)
             THEN /\ tree' = tree \cup {Entry(WorkName(epubs[pIdx]), "extract", slug, pIdx)}
                  /\ pPc' = "find"
             ELSE /\ slug = "s1"
                  /\ tree' = tree
                  /\ pPc' = "cleanupFailed"
    /\ UNCHANGED <<pIdx, pSlug, pipeFrame>>

\* findSingleSubdir(extractRoot), slug, ensureDir(outChunks).
PipeFind ==
    /\ pPc = "find"
    /\ LET dirs == SubdirsOf(tree, WorkName(epubs[pIdx]))
       IN IF Cardinality(dirs) # 1
          THEN pPc' = "cleanupFailed" /\ pSlug' = pSlug
          ELSE pPc' = "chunk" /\ pSlug' = CHOOSE s \in dirs : TRUE
    /\ UNCHANGED <<pIdx, tree, stageLog, pipeFrame>>

\* Stage 2: npm run chunk --in bookDir --out <oneWork>/chunks/<slug>.
PipeChunk ==
    /\ pPc = "chunk"
    /\ \E result \in StageResults :
          /\ stageLog' = Append(stageLog, Stage(pIdx, "chunk", result, {}))
          /\ IF StageOk(result)
             THEN /\ tree' = tree \cup {Entry(WorkName(epubs[pIdx]), "chunks", pSlug, pIdx)}
                  /\ pPc' = "ingest"
             ELSE /\ tree' = tree
                  /\ pPc' = "cleanupFailed"
    /\ UNCHANGED <<pIdx, pSlug, pipeFrame>>

\* Stage 3: npm run ingest:pg --chunksRoot <oneWork>/chunks; then the next
\* EPUB of the loop.
PipeIngest ==
    /\ pPc = "ingest"
    /\ \E result \in StageResults :
          /\ stageLog' = Append(stageLog,
                Stage(pIdx, "ingest", result,
                      IF result = "spawnError" THEN {}
                      ELSE ChunkSources(tree, WorkName(epubs[pIdx]))))
          /\ IF StageOk(result)
             THEN IF pIdx < Len(epubs)
                  THEN pPc' = "extract" /\ pIdx' = pIdx + 1
                  ELSE pPc' = "cleanup" /\ pIdx' = pIdx
             ELSE pPc' = "cleanupFailed" /\ pIdx' = pIdx
    /\ UNCHANGED <<pSlug, tree, pipeFrame>>

\* finally: the work directory is removed unless --keepWorkdir.
PipeCleanup ==
    /\ pPc \in {"cleanup", "cleanupFailed"}
    /\ tree' = IF keepWorkdir THEN tree ELSE {}
    /\ pPc' = IF pPc = "cleanup" THEN "done" ELSE "failed"
    /\ UNCHANGED <<pIdx, pSlug, stageLog, pipeFrame>>

PipeNext ==
    PipeStart \/ PipeExtract \/ PipeFind \/ PipeChunk \/ PipeIngest \/ PipeCleanup

SpecPipe == PipeInit /\ [][PipeNext]_vars

\* C25: the stages of each EPUB are spawned in the order extract, chunk,
\* ingest, each after the previous stage of the same EPUB has exited with
\* code 0; after a stage that exits non-zero or cannot be spawned, no stage
\* is started any more.
C25_StageOrder ==
    \A k \in 1..Len(stageLog) :
        LET s == stageLog[k]
        IN /\ s.stage = "extract" =>
                 \A j \in 1..(k - 1) : stageLog[j].epub # s.epub
           /\ s.stage = "chunk" =>
                 /\ k > 1
                 /\ stageLog[k - 1] = Stage(s.epub, "extract", "exit0", {})
           /\ s.stage = "ingest" =>
                 /\ k > 1
                 /\ stageLog[k - 1] = Stage(s.epub, "chunk", "exit0", {})
           /\ s.result # "exit0" => k = Len(stageLog)

C25_Witness ==
    /\ pPc = "failed"
    /\ Len(stageLog) = 5
    /\ stageLog[3].stage = "ingest" /\ stageLog[3].result = "exit0"
    /\ stageLog[5] = Stage(2, "chunk", "nonzero", {})

\* C26: the work directory of every EPUB taken up so far differs from that
\* of every other one; it holds no file produced for another EPUB, and the
\* ingest stage of an EPUB reads chunk files of that EPUB only.
C26_WorkDirsIsolated ==
    /\ \A i, j \in 1..pIdx : i # j => WorkName(epubs[i]) # WorkName(epubs[j])
    /\ \A e \in tree : \A i \in 1..pIdx : e.dir = WorkName(epubs[i]) => e.by = i
    /\ \A k \in 1..Len(stageLog) : stageLog[k].read \subseteq {stageLog[k].epub}

====
